---- MODULE Spec2Model ----
(***************************************************************************)
(* The OpenAI proxy service of src/main.py: a FastAPI application with a   *)
(* route table, two local status endpoints, two forwarding endpoints that  *)
(* share proxy_request, and a self-test endpoint.                          *)
(*                                                                         *)
(* Strings the code inspects by prefix (URL paths, content types) are      *)
(* sequences of tokens drawn from a prefix-free alphabet, so that          *)
(* str.startswith on the characters is exactly the prefix relation on the  *)
(* token sequences.  Header values are token sequences too.                *)
(***************************************************************************)
EXTENDS Integers, Sequences, FiniteSets, TLC

VARIABLES req, handler, pc, outbound, upstream, resp, prev

vars == <<req, handler, pc, outbound, upstream, resp, prev>>

(***************************************************************************)
(* Bounds of the model                                                     *)
(***************************************************************************)
\* upstream texts are up to MaxExcess characters longer than the preview
MaxExcess == 1
\* largest number of elements of the `data` list of an upstream JSON object
MaxItems == 3

(***************************************************************************)
(* Process-wide configuration                                              *)
(***************************************************************************)
OPENAI_API_URL == "https://api.openai.com"
OPENAI_API_KEY == "sk-configured"

\* response.text[:1000]
PreviewLen == 1000
\* response.text[:500] of the self-test
TestPreviewLen == 500

Min(a, b) == IF a <= b THEN a ELSE b

StartsWith(s, t) == Len(t) <= Len(s) /\ SubSeq(s, 1, Len(t)) = t

(***************************************************************************)
(* Inbound requests                                                        *)
(***************************************************************************)
Methods == {"GET", "HEAD", "POST", "PUT", "DELETE", "PATCH", "OPTIONS"}

\* The path segments p the requests are built from; a request path is p or
\* "v1/" followed by p (the leading "/" of the URL is left implicit).
Segments ==
    { <<>>, <<"health">>, <<"test">>, <<"models">>, <<"models", "/x">>,
      <<"docs">>, <<"docs", "/oauth2-redirect">>, <<"openapi", ".json">>,
      <<"openapi">>, <<"redoc">>, <<"redoc", "/x">>,
      <<"v1/">>, <<"v1/", "models">> }

Paths == Segments \cup { <<"v1/">> \o p : p \in Segments }

\* Starlette lower-cases inbound header names.
InboundHeaderValues ==
    [ authorization |-> {<<>>, <<"Bearer ", "sk-attacker">>},
      xrequestid |-> {<<>>, <<"req-1">>},
      xclientversion |-> {<<>>, <<"2.0">>} ]

\* A header set is a set of <<name, value>> pairs with at most one per name.
InboundHeaderSets ==
    { ( (IF a = <<>> THEN {} ELSE {<<"authorization", a>>})
        \cup (IF r = <<>> THEN {} ELSE {<<"x-request-id", r>>})
        \cup (IF c = <<>> THEN {} ELSE {<<"x-client-version", c>>}) ) :
      a \in InboundHeaderValues.authorization,
      r \in InboundHeaderValues.xrequestid,
      c \in InboundHeaderValues.xclientversion }

HasHeader(hs, name) == \E h \in hs : h[1] = name
HeaderValue(hs, name) == (CHOOSE h \in hs : h[1] = name)[2]
\* dict assignment headers[name] = value
SetHeader(hs, name, value) == { h \in hs : h[1] # name } \cup { <<name, value>> }

NoReq == [method |-> "none", path |-> <<>>, headers |-> {}]

(***************************************************************************)
(* The route table, in registration order.  FastAPI(...) registers its     *)
(* documentation routes (default openapi_url, docs_url, redoc_url) when    *)
(* the application object is constructed, before any decorator runs.  A    *)
(* decorator stack registers bottom-up, so HEAD /health precedes           *)
(* GET /health.  app.get does not add HEAD; the documentation routes are   *)
(* plain Starlette routes, which do.                                       *)
(***************************************************************************)
ProxyMethods == {"GET", "POST", "PUT", "DELETE", "PATCH", "OPTIONS"}

Routes ==
    << [pattern |-> <<"openapi", ".json">>, wildcard |-> FALSE,
        methods |-> {"GET", "HEAD"}, endpoint |-> "openapi"],
       [pattern |-> <<"docs">>, wildcard |-> FALSE,
        methods |-> {"GET", "HEAD"}, endpoint |-> "swagger_ui_html"],
       [pattern |-> <<"docs", "/oauth2-redirect">>, wildcard |-> FALSE,
        methods |-> {"GET", "HEAD"}, endpoint |-> "swagger_ui_redirect"],
       [pattern |-> <<"redoc">>, wildcard |-> FALSE,
        methods |-> {"GET", "HEAD"}, endpoint |-> "redoc_html"],
       [pattern |-> <<>>, wildcard |-> FALSE,
        methods |-> {"GET"}, endpoint |-> "health_check"],
       [pattern |-> <<"health">>, wildcard |-> FALSE,
        methods |-> {"HEAD"}, endpoint |-> "health"],
       [pattern |-> <<"health">>, wildcard |-> FALSE,
        methods |-> {"GET"}, endpoint |-> "health"],
       [pattern |-> <<"v1/">>, wildcard |-> TRUE,
        methods |-> ProxyMethods, endpoint |-> "proxy_openai_v1"],
       [pattern |-> <<>>, wildcard |-> TRUE,
        methods |-> ProxyMethods, endpoint |-> "proxy_openai_direct"],
       [pattern |-> <<"test">>, wildcard |-> FALSE,
        methods |-> {"POST"}, endpoint |-> "test_openai"] >>

\* A route's path regex matches: exactly the pattern, or the pattern followed
\* by the {path:path} parameter (which may be empty).
PathMatches(route, path) ==
    IF route.wildcard THEN StartsWith(path, route.pattern)
    ELSE path = route.pattern

\* The value of the {path:path} parameter.
PathParam(route, path) ==
    IF route.wildcard
    THEN SubSeq(path, Len(route.pattern) + 1, Len(path))
    ELSE <<>>

FullMatches(method, path) ==
    { i \in DOMAIN Routes :
        PathMatches(Routes[i], path) /\ method \in Routes[i].methods }

PartialMatches(method, path) ==
    { i \in DOMAIN Routes :
        PathMatches(Routes[i], path) /\ method \notin Routes[i].methods }

First(S) == CHOOSE i \in S : \A j \in S : i <= j

\* Starlette's Router: the first route that matches path and method handles
\* the request; failing that, the first route that matches the path alone
\* answers 405; failing that, 404.
Resolve(method, path) ==
    IF FullMatches(method, path) # {}
    THEN LET r == Routes[First(FullMatches(method, path))]
         IN  [endpoint |-> r.endpoint, path |-> PathParam(r, path)]
    ELSE IF PartialMatches(method, path) # {}
    THEN [endpoint |-> "method_not_allowed", path |-> <<>>]
    ELSE [endpoint |-> "not_found", path |-> <<>>]

NoHandler == [endpoint |-> "none", path |-> <<>>]

(***************************************************************************)
(* Upstream results                                                        *)
(***************************************************************************)
\* A text is the first `len` characters of a document of kind `doc`; `items`
\* is the length of its top-level `data` list when it is a JSON object.
NoText == [doc |-> "none", len |-> 0, items |-> 0]

UpstreamTexts ==
    { [doc |-> "object", len |-> 5, items |-> n] : n \in 0..MaxItems }
    \cup { [doc |-> "nonfinite", len |-> 5, items |-> 0] }
    \cup { [doc |-> "malformed", len |-> l, items |-> 0] :
             l \in {5, PreviewLen} \cup { PreviewLen + k : k \in 1..MaxExcess } }

UpstreamStatuses == {200, 404, 504}

UpstreamContentTypes ==
    { <<"application/json">>, <<"application/json", "; charset=utf-8">>,
      <<"text/plain">>, <<>> }

\* text[:n]
Truncate(text, n) == [text EXCEPT !.len = Min(text.len, n)]

\* json.loads: objects parse, and so do the literals NaN and Infinity;
\* anything else raises.
JsonParses(text) == text.doc \in {"object", "nonfinite"}

\* JSONResponse renders with allow_nan=False: a parsed value holding NaN or
\* Infinity raises ValueError.
JsonRenders(value) == value.doc # "nonfinite"

\* The exceptions client.request can raise, and httpx's class hierarchy.
UpstreamExceptions ==
    {"ConnectTimeout", "ReadTimeout", "ConnectError", "ReadError", "InvalidURL"}

ExceptionParent(c) ==
    CASE c \in {"ConnectTimeout", "ReadTimeout"} -> "TimeoutException"
      [] c = "TimeoutException" -> "TransportError"
      [] c \in {"ConnectError", "ReadError"} -> "NetworkError"
      [] c = "NetworkError" -> "TransportError"
      [] c = "TransportError" -> "RequestError"
      [] c = "RequestError" -> "HTTPError"
      [] c \in {"HTTPError", "InvalidURL", "ValueError"} -> "Exception"
      [] OTHER -> "BaseException"

RECURSIVE IsInstance(_, _)
IsInstance(c, cls) ==
    \/ c = cls
    \/ c # "BaseException" /\ IsInstance(ExceptionParent(c), cls)

NoUpstream ==
    [kind |-> "none", status |-> 0, ctype |-> <<>>, text |-> NoText, exc |-> "none"]

UpstreamResponse(status, ctype, text) ==
    [kind |-> "response", status |-> status, ctype |-> ctype, text |-> text,
     exc |-> "none"]

UpstreamFailure(exc) ==
    [kind |-> "exception", status |-> 0, ctype |-> <<>>, text |-> NoText,
     exc |-> exc]

(***************************************************************************)
(* Responses returned to the caller                                        *)
(***************************************************************************)
\* The JSON (or HTML) content of a response: its `kind`, the names of its
\* top-level fields, and the values the fields hold.
Content(kind, fields, tag, text, num) ==
    [kind |-> kind, fields |-> fields, tag |-> tag, text |-> text, num |-> num]

Response(by, status, content, headers) ==
    [by |-> by, status |-> status, content |-> content, headers |-> headers]

cors_headers ==
    { <<"Access-Control-Allow-Origin", <<"*">>>>,
      <<"Access-Control-Allow-Methods",
        <<"GET", ", ", "POST", ", ", "PUT", ", ", "DELETE", ", ", "PATCH", ", ", "OPTIONS">>>>,
      <<"Access-Control-Allow-Headers", <<"*">>>> }

response_headers == { <<"Content-Type", <<"application/json">>>> } \cup cors_headers

\* raise HTTPException(status_code, detail): FastAPI answers {"detail": detail}.
HTTPException(by, status, detail) ==
    Response(by, status, Content("detail", {"detail"}, detail, NoText, 0), {})

\* JSONResponse(content={}, headers=<the cross-origin headers>)
PreflightResponse(by) ==
    Response(by, 200, Content("object", {}, "", NoText, 0), cors_headers)

(***************************************************************************)
(* proxy_request, up to the upstream call                                  *)
(***************************************************************************)
safe_headers == <<"x-request-id", "x-client-version">>

fixed_headers ==
    { <<"Authorization", <<"Bearer ", OPENAI_API_KEY>>>>,
      <<"Content-Type", <<"application/json">>>>,
      <<"User-Agent", <<"OpenAI/Python 1.0.0">>>>,
      <<"Accept", <<"application/json">>>>,
      <<"Accept-Encoding", <<"gzip, deflate">>>> }

RECURSIVE CopyHeaders(_, _, _)
\* for header_name in names: if header_name in original: headers[...] = ...
CopyHeaders(headers, original, names) ==
    IF names = <<>> THEN headers
    ELSE LET n == Head(names)
         IN  CopyHeaders(IF HasHeader(original, n)
                         THEN SetHeader(headers, n, HeaderValue(original, n))
                         ELSE headers,
                         original, Tail(names))

\* Faulty variant: every inbound header is copied through, Authorization
\* included.
BuildHeadersForwardAll(original_headers) ==
    CopyHeaders(fixed_headers, original_headers,
                <<"authorization", "x-request-id", "x-client-version">>)

BuildHeaders(original_headers) ==
    CopyHeaders(fixed_headers, original_headers, safe_headers)

\* Header names are case-insensitive on the wire.
Lower(name) ==
    CASE name = "Authorization" -> "authorization"
      [] name = "Content-Type" -> "content-type"
      [] name = "User-Agent" -> "user-agent"
      [] name = "Accept" -> "accept"
      [] name = "Accept-Encoding" -> "accept-encoding"
      [] OTHER -> name

\* The values sent under a header name, whatever its spelling.
WireValues(headers, name) == { h[2] : h \in { g \in headers : Lower(g[1]) = name } }

client_headers == { <<"User-Agent", <<"OpenAI/Python 1.0.0">>>> }

\* httpx merges the client's default headers under those of the request.
MergeHeaders(defaults, headers) ==
    { d \in defaults : ~ \E h \in headers : Lower(h[1]) = Lower(d[1]) } \cup headers

\* Faulty variant: the version prefix is left out.
TargetUrlNoPrefix(path) == <<OPENAI_API_URL, "/">> \o path

\* f"{OPENAI_API_URL}/v1/{path}"
TargetUrl(path) == <<OPENAI_API_URL, "/v1/">> \o path

OutboundCall(method, url, headers) ==
    [method |-> method, url |-> url, headers |-> headers]

\* Faulty variant: the call is dispatched a second time.
ClientRequestTwice(calls, call) == Append(Append(calls, call), call)

\* await client.request(...): one call leaves for upstream.
ClientRequest(calls, call) == Append(calls, call)

(***************************************************************************)
(* proxy_request, from the upstream result on                              *)
(***************************************************************************)
\* Faulty variant: the RequestError clause precedes the TimeoutException one.
except_clauses_reordered ==
    << [cls |-> "RequestError", status_code |-> 502, detail |-> "Bad Gateway"],
       [cls |-> "TimeoutException", status_code |-> 504, detail |-> "Gateway Timeout"],
       [cls |-> "Exception", status_code |-> 500, detail |-> "Internal Server Error"] >>

except_clauses ==
    << [cls |-> "TimeoutException", status_code |-> 504, detail |-> "Gateway Timeout"],
       [cls |-> "RequestError", status_code |-> 502, detail |-> "Bad Gateway"],
       [cls |-> "Exception", status_code |-> 500, detail |-> "Internal Server Error"] >>

\* The first except clause whose class the exception is an instance of.
HandleException(exc) ==
    LET i == First({ j \in DOMAIN except_clauses :
                       IsInstance(exc, except_clauses[j].cls) })
    IN  HTTPException("proxy_request", except_clauses[i].status_code,
                      except_clauses[i].detail)

IsJsonContentType(ctype) == StartsWith(ctype, <<"application/json">>)

\* The inner try block: the content of the response.
ResponseContent(r) ==
    IF IsJsonContentType(r.ctype)
    THEN IF JsonParses(r.text)
         THEN Content("json", {}, "", r.text, 0)
         ELSE Content("envelope", {"error", "status"},
                      "Failed to parse OpenAI response", NoText, r.status)
    ELSE Content("envelope", {"error", "response"},
                 "Non-JSON response from OpenAI", Truncate(r.text, PreviewLen), 0)

\* JSONResponse(content=...) serialises at construction, inside the outer try.
ContentRenders(content) == content.kind = "json" => JsonRenders(content.text)

ProxyResult(r) ==
    IF r.kind = "exception" THEN HandleException(r.exc)
    ELSE IF ContentRenders(ResponseContent(r))
    THEN Response("proxy_request", r.status, ResponseContent(r), response_headers)
    ELSE HandleException("ValueError")

(***************************************************************************)
(* The state machine: one request at a time from arrival to response.      *)
(* Requests share no state, so their interleaving adds nothing.            *)
(*   pc = "idle"      no request yet                                       *)
(*        "routed"    the router has chosen the endpoint                   *)
(*        "awaiting"  suspended in the upstream call                       *)
(*        "resumed"   the upstream call has returned or raised             *)
(*        "done"      the response has been returned                       *)
(* and back to "idle" when the request's values are released.              *)
(***************************************************************************)
NoPrev == [stage |-> 0, segment |-> <<>>, calls |-> <<>>]

Init ==
    /\ req = NoReq
    /\ handler = NoHandler
    /\ pc = "idle"
    /\ outbound = <<>>
    /\ upstream = NoUpstream
    /\ resp = <<>>
    /\ prev = NoPrev

\* The application receives a request and the router resolves it.
Accept(method, path, headers) ==
    /\ req' = [method |-> method, path |-> path, headers |-> headers]
    /\ handler' = Resolve(method, path)
    /\ pc' = "routed"
    /\ outbound' = <<>>
    /\ upstream' = NoUpstream
    /\ resp' = <<>>

receive ==
    /\ pc = "idle"
    /\ \E m \in Methods, p \in Paths, h \in InboundHeaderSets : Accept(m, p, h)
    /\ UNCHANGED prev

Return(r) ==
    /\ resp' = Append(resp, r)
    /\ pc' = "done"

\* The request's values are dropped once its response has been sent.
release ==
    /\ pc = "done"
    /\ req' = NoReq
    /\ handler' = NoHandler
    /\ pc' = "idle"
    /\ outbound' = <<>>
    /\ upstream' = NoUpstream
    /\ resp' = <<>>
    /\ UNCHANGED prev

\* The router's own answers.
router_default ==
    /\ pc = "routed"
    /\ handler.endpoint \in {"method_not_allowed", "not_found"}
    /\ Return(IF handler.endpoint = "method_not_allowed"
              THEN HTTPException("router", 405, "Method Not Allowed")
              ELSE HTTPException("router", 404, "Not Found"))
    /\ UNCHANGED <<req, handler, outbound, upstream, prev>>

\* The documentation endpoints FastAPI serves itself.
documentation ==
    /\ pc = "routed"
    /\ handler.endpoint \in
         {"openapi", "swagger_ui_html", "swagger_ui_redirect", "redoc_html"}
    /\ Return(Response(handler.endpoint, 200,
                       Content(IF handler.endpoint = "openapi" THEN "schema" ELSE "html",
                               {}, "", NoText, 0), {}))
    /\ UNCHANGED <<req, handler, outbound, upstream, prev>>

health_check ==
    /\ pc = "routed"
    /\ handler.endpoint = "health_check"
    /\ Return(Response("health_check", 200,
                       Content("object", {"status", "service"}, "ok", NoText, 0), {}))
    /\ UNCHANGED <<req, handler, outbound, upstream, prev>>

health ==
    /\ pc = "routed"
    /\ handler.endpoint = "health"
    /\ Return(Response("health", 200,
                       Content("object", {"status", "openai_key_set"}, "healthy",
                               NoText, 0), {}))
    /\ UNCHANGED <<req, handler, outbound, upstream, prev>>

\* Faulty variant: no request is treated as a pre-flight.
IsPreflightNever(method) == FALSE

\* request.method == "OPTIONS"
IsPreflight(method) == method = "OPTIONS"

\* proxy_request up to its suspension in client.request.  The inbound body
\* and query string are handed to the call untouched and decide nothing, so
\* the call is recorded by its method, URL and headers.
proxy_request_call(path) ==
    /\ outbound' = ClientRequest(outbound,
                     OutboundCall(req.method, TargetUrl(path),
                                  MergeHeaders(client_headers, BuildHeaders(req.headers))))
    /\ pc' = "awaiting"
    /\ UNCHANGED <<req, handler, upstream, resp, prev>>

proxy_openai_v1 ==
    /\ pc = "routed"
    /\ handler.endpoint = "proxy_openai_v1"
    /\ IF IsPreflight(req.method)
       THEN /\ Return(PreflightResponse("proxy_openai_v1"))
            /\ UNCHANGED <<req, handler, outbound, upstream, prev>>
       ELSE proxy_request_call(handler.path)

system_routes == { <<>>, <<"health">>, <<"docs">>, <<"openapi", ".json">>, <<"redoc">> }

\* path in system_routes or path.startswith("docs") or path.startswith("openapi")
IsSystemRoute(path) ==
    \/ path \in system_routes
    \/ StartsWith(path, <<"docs">>)
    \/ StartsWith(path, <<"openapi">>)

proxy_openai_direct ==
    /\ pc = "routed"
    /\ handler.endpoint = "proxy_openai_direct"
    /\ IF IsSystemRoute(handler.path)
       THEN /\ Return(HTTPException("proxy_openai_direct", 404, "Not found"))
            /\ UNCHANGED <<req, handler, outbound, upstream, prev>>
       ELSE IF IsPreflight(req.method)
       THEN /\ Return(PreflightResponse("proxy_openai_direct"))
            /\ UNCHANGED <<req, handler, outbound, upstream, prev>>
       ELSE proxy_request_call(handler.path)

\* Upstream answers the call in flight.
upstream_responds ==
    /\ pc = "awaiting"
    /\ \E s \in UpstreamStatuses, c \in UpstreamContentTypes, t \in UpstreamTexts :
         upstream' = UpstreamResponse(s, c, t)
    /\ pc' = "resumed"
    /\ UNCHANGED <<req, handler, outbound, resp, prev>>

\* The call raises: the deadline passes, the connection fails, or the
\* client rejects the request.
upstream_raises ==
    /\ pc = "awaiting"
    /\ \E e \in UpstreamExceptions : upstream' = UpstreamFailure(e)
    /\ pc' = "resumed"
    /\ UNCHANGED <<req, handler, outbound, resp, prev>>

\* proxy_request from the result of client.request to its return or raise.
proxy_request ==
    /\ pc = "resumed"
    /\ handler.endpoint \in {"proxy_openai_v1", "proxy_openai_direct"}
    /\ Return(ProxyResult(upstream))
    /\ UNCHANGED <<req, handler, outbound, upstream, prev>>

Next ==
    \/ receive
    \/ router_default
    \/ documentation
    \/ health_check
    \/ health
    \/ proxy_openai_v1
    \/ proxy_openai_direct
    \/ upstream_responds
    \/ upstream_raises
    \/ proxy_request
    \/ release

Spec == Init /\ [][Next]_vars

\* The handler's steps are scheduled by the event loop and every upstream
\* call ends: it returns, fails, or runs into the client's timeout.
Progress ==
    \/ router_default
    \/ documentation
    \/ health_check
    \/ health
    \/ proxy_openai_v1
    \/ proxy_openai_direct
    \/ upstream_responds
    \/ upstream_raises
    \/ proxy_request
    \/ release

FairSpec == Spec /\ WF_vars(Progress)

(***************************************************************************)
(* The same segment requested in both forms: first as /v1/<p>, then, with  *)
(* the same method and headers, as /<p>.  prev keeps the segment and the   *)
(* upstream calls of the first request.                                    *)
(***************************************************************************)
first_request ==
    /\ pc = "idle"
    /\ prev.stage = 0
    /\ \E m \in Methods, p \in Segments, h \in InboundHeaderSets :
         /\ Accept(m, <<"v1/">> \o p, h)
         /\ prev' = [stage |-> 1, segment |-> p, calls |-> <<>>]

second_request ==
    /\ pc = "done"
    /\ prev.stage = 1
    /\ Accept(req.method, prev.segment, req.headers)
    /\ prev' = [prev EXCEPT !.stage = 2, !.calls = outbound]

NextBothForms ==
    \/ first_request
    \/ second_request
    \/ router_default
    \/ documentation
    \/ health_check
    \/ health
    \/ proxy_openai_v1
    \/ proxy_openai_direct
    \/ upstream_responds
    \/ upstream_raises
    \/ proxy_request

SpecBothForms == Init /\ [][NextBothForms]_vars

(***************************************************************************)
(* test_openai, called as a function.  The router never selects it (see    *)
(* Routes): the catch-all route is registered first and accepts POST.      *)
(***************************************************************************)
test_openai_call ==
    /\ pc = "routed"
    /\ handler.endpoint = "test_openai"
    /\ outbound' = ClientRequest(outbound,
                     OutboundCall("GET", <<OPENAI_API_URL, "/v1/", "models">>,
                                  { <<"Authorization", <<"Bearer ", OPENAI_API_KEY>>>>,
                                    <<"User-Agent", <<"OpenAI/Python 1.0.0">>>> }))
    /\ pc' = "awaiting"
    /\ UNCHANGED <<req, handler, upstream, resp, prev>>

\* The dict test_openai returns; FastAPI sends it with status 200.
SelfTestResult(r) ==
    IF r.kind = "response" /\ r.status = 200 /\ JsonParses(r.text)
       /\ r.text.doc = "object"   \* models_data.get needs a JSON object
    THEN Response("test_openai", 200,
                  Content("object",
                          {"status", "openai_status", "models_count", "message"},
                          "success", NoText, r.text.items), {})
    ELSE IF r.kind = "response" /\ r.status # 200
    THEN Response("test_openai", 200,
                  Content("object", {"status", "openai_status", "message", "response"},
                          "error", Truncate(r.text, TestPreviewLen), r.status), {})
    ELSE Response("test_openai", 200,
                  Content("object", {"status", "error", "message"}, "error", NoText, 0),
                  {})

test_openai ==
    /\ pc = "resumed"
    /\ handler.endpoint = "test_openai"
    /\ Return(SelfTestResult(upstream))
    /\ UNCHANGED <<req, handler, outbound, upstream, prev>>

InitSelfTest ==
    /\ req = [method |-> "POST", path |-> <<"test">>, headers |-> {}]
    /\ handler = [endpoint |-> "test_openai", path |-> <<>>]
    /\ pc = "routed"
    /\ outbound = <<>>
    /\ upstream = NoUpstream
    /\ resp = <<>>
    /\ prev = NoPrev

NextSelfTest ==
    \/ test_openai_call
    \/ upstream_responds
    \/ upstream_raises
    \/ test_openai

SpecSelfTest == InitSelfTest /\ [][NextSelfTest]_vars

(***************************************************************************)
(* The claims                                                              *)
(***************************************************************************)
Done == pc = "done"

ForwardMethods == {"GET", "POST", "PUT", "DELETE", "PATCH"}

\* The paths the specification excludes from forwarding: the local routes
\* and everything equal to or prefixed by a documentation route name.
DocPrefixed(path) ==
    \/ StartsWith(path, <<"docs">>)
    \/ StartsWith(path, <<"openapi">>)
    \/ StartsWith(path, <<"redoc">>)

Excluded(path) == path \in {<<>>, <<"health">>} \/ DocPrefixed(path)

DetailResponse(status, detail) ==
    /\ Len(resp) = 1
    /\ resp[1].status = status
    /\ resp[1].content.kind = "detail"
    /\ resp[1].content.fields = {"detail"}
    /\ resp[1].content.tag = detail

\* C1: every call sent upstream carries exactly one Authorization value,
\* Bearer <configured credential>, whatever headers the inbound request
\* has; the allow-listed correlation headers go through unchanged.
C1_OutboundAuthorizationIsConfigured ==
    \A i \in DOMAIN outbound :
        /\ WireValues(outbound[i].headers, "authorization")
             = { <<"Bearer ", "sk-configured">> }
        /\ \A n \in {"x-request-id", "x-client-version"} :
             WireValues(outbound[i].headers, n) = WireValues(req.headers, n)

C1_Witness ==
    /\ pc = "awaiting"
    /\ Len(outbound) = 1
    /\ WireValues(req.headers, "authorization") = { <<"Bearer ", "sk-attacker">> }
    /\ WireValues(outbound[1].headers, "x-request-id") = { <<"req-1">> }
    /\ WireValues(outbound[1].headers, "x-client-version") = { <<"2.0">> }

BothFormsDone == Done /\ prev.stage = 2 /\ req.method \in ForwardMethods

SameTarget(p) ==
    /\ Len(prev.calls) = 1
    /\ Len(outbound) = 1
    /\ prev.calls[1].url = <<"https://api.openai.com", "/v1/">> \o p
    /\ outbound[1].url = <<"https://api.openai.com", "/v1/">> \o p

\* C2 as stated: for every forwarding method and every segment p outside
\* the excluded set, /v1/p and /p are sent to the same target <base>/v1/p,
\* also when p itself starts with v1/.
C2_SameTargetForEverySegment ==
    (BothFormsDone /\ ~Excluded(prev.segment)) => SameTarget(prev.segment)

\* C2 as amended: the same, for the segments p that do not themselves
\* start with v1/.
C2_SameTargetForPlainSegments ==
    (BothFormsDone /\ ~Excluded(prev.segment)
       /\ ~StartsWith(prev.segment, <<"v1/">>))
    => SameTarget(prev.segment)

C2_Witness ==
    /\ BothFormsDone
    /\ req.method = "POST"
    /\ prev.segment = <<"models", "/x">>
    /\ req.path = <<"models", "/x">>
    /\ prev.calls = outbound
    /\ Len(outbound) = 1

\* C3: POST /test is served by the self-test: one GET <base>/v1/models, and
\* on a 200 answer whose data list has n elements the caller gets
\* status "success" and models_count n.
C3_PostTestRunsSelfTest ==
    (Done /\ req.method = "POST" /\ req.path = <<"test">>) =>
        /\ resp[1].by = "test_openai"
        /\ Len(outbound) = 1
        /\ outbound[1].method = "GET"
        /\ outbound[1].url = <<"https://api.openai.com", "/v1/", "models">>
        /\ (upstream.kind = "response" /\ upstream.status = 200
              /\ upstream.text.doc = "object") =>
             /\ resp[1].content.tag = "success"
             /\ resp[1].content.num = upstream.text.items

\* C4: GET and HEAD on / and /health are answered with the static status
\* object, and no request to / or /health makes an upstream call.
C4_LocalRoutesAnswerLocally ==
    req.path \in {<<>>, <<"health">>} =>
        /\ outbound = <<>>
        /\ (Done /\ req.method \in {"GET", "HEAD"}) =>
             /\ resp[1].status = 200
             /\ resp[1].content.kind = "object"
             /\ "status" \in resp[1].content.fields

\* C5: a request, with any supported method, whose path equals or is
\* prefixed by docs, openapi or redoc gets 404 and makes no upstream call.
C5_DocRoutesNotFound ==
    (req.method \in ProxyMethods /\ DocPrefixed(req.path)) =>
        /\ outbound = <<>>
        /\ Done => resp[1].status = 404

\* C6: OPTIONS on a proxyable path, in the /v1/<path> or the /<path> form,
\* gets 200, an empty JSON object and the three cross-origin headers, and
\* makes no upstream call.
C6_PreflightAnsweredLocally ==
    (req.method = "OPTIONS"
       /\ (StartsWith(req.path, <<"v1/">>) \/ ~Excluded(req.path))) =>
        /\ outbound = <<>>
        /\ Done =>
             /\ Len(resp) = 1
             /\ resp[1].status = 200
             /\ resp[1].content.kind = "object"
             /\ resp[1].content.fields = {}
             /\ WireValues(resp[1].headers, "Access-Control-Allow-Origin") = { <<"*">> }
             /\ WireValues(resp[1].headers, "Access-Control-Allow-Methods") =
                  { <<"GET", ", ", "POST", ", ", "PUT", ", ", "DELETE", ", ",
                      "PATCH", ", ", "OPTIONS">> }
             /\ WireValues(resp[1].headers, "Access-Control-Allow-Headers") = { <<"*">> }

C6_Witness ==
    /\ Done
    /\ req.method = "OPTIONS"
    /\ req.path = <<"models">>
    /\ handler.endpoint = "proxy_openai_direct"
    /\ resp[1].status = 200

C8_UpstreamStatusPreserved ==
    (Done /\ upstream.kind = "response") =>
        /\ resp[1].status = upstream.status
        /\ resp[1].content.kind # "detail"

OneCallOneResponse ==
    /\ Len(resp) <= 1
    /\ Len(outbound) <= 1
    /\ pc \in {"awaiting", "resumed"} => Len(outbound) = 1
    /\ Done =>
         /\ Len(resp) = 1
         /\ resp[1].by = "proxy_request" => Len(outbound) = 1

C10_ContentByCase ==
    (Done /\ upstream.kind = "response") =>
        LET json == StartsWith(upstream.ctype, <<"application/json">>)
            parses == upstream.text.doc \in {"object", "nonfinite"}
            c == resp[1].content
        IN  /\ (json /\ parses) => (c.kind = "json" /\ c.text = upstream.text)
            /\ ~json =>
                 /\ c.kind = "envelope"
                 /\ c.fields = {"error", "response"}
                 /\ c.text.doc = upstream.text.doc
                 /\ c.text.len = Min(upstream.text.len, 1000)
            /\ (json /\ ~parses) =>
                 /\ c.kind = "envelope"
                 /\ c.fields = {"error", "status"}
                 /\ c.num = upstream.status

====
